---- MODULE Spec2Model ----
(***************************************************************************)
(* container-service-extension: the command dispatcher (cse.py) and the    *)
(* configuration validator (config.py).                                    *)
(*                                                                         *)
(* One behaviour is one process invocation `cse <cmd> ...`.  The inputs    *)
(* (command line, environment, configuration document, reachability of the *)
(* three external systems, writability of standard output) are chosen in   *)
(* Init; the actions are click's option processing, the four command       *)
(* handlers and the statements of check_config in source order.            *)
(***************************************************************************)
EXTENDS Naturals, Sequences, FiniteSets

VARIABLES
    cmd,              \* the subcommand invoked
    argv,             \* [config, yes, skip]: the flags given on the command line
    environ,          \* [CSE_CONFIG |-> value or NoValue]
    doc,              \* the YAML document: [keys, verify]
    fileReadable,     \* open(file_name, 'r') succeeds
    amqpState,        \* "down" | "closed" | "open": what the broker does to a connect
    vcdUp,            \* Client.set_credentials succeeds
    vcsUp,            \* VSphere.connect succeeds
    stdoutOk,         \* click.echo / click.secho to stdout succeed
    workflowOk,       \* install_cse / uninstall_cse / the service loop succeed
    pc,               \* position of the process
    configPath,       \* the value click binds to the `config` parameter
    prompted,         \* the confirmation prompt was shown
    answer,           \* the answer given to the prompt ("none" | "yes" | "no")
    aborted,          \* ctx.abort() was called
    called,           \* the delegated operations that were called
    status,           \* per probe: "idle" | "running" | "ok" | "failed"
    attempts,         \* per probe: number of times the external client was called
    connOpen,         \* a queue connection opened by this invocation is open
    out,              \* the lines printed on standard output
    warned,           \* number of InsecureRequestWarning lines on stderr
    suppressCount,    \* number of calls of urllib3.disable_warnings()
    warningsDisabled, \* the process-wide urllib3 warning filter is installed
    exc,              \* the exception raised last ("none" when none was)
    handled,          \* "none" | "caught" | "escaped": fate of the exception
    logged,           \* number of LOGGER.error calls
    ccResult          \* check_config: "none" | "returned" | "raised"

vars == <<cmd, argv, environ, doc, fileReadable, amqpState, vcdUp, vcsUp,
          stdoutOk, workflowOk, pc, configPath, prompted, answer, aborted,
          called, status, attempts, connOpen, out, warned, suppressCount,
          warningsDisabled, exc, handled, logged, ccResult>>

inputs == <<cmd, argv, environ, doc, fileReadable, amqpState, vcdUp, vcsUp,
            stdoutOk, workflowOk>>

NoValue == "<none>"

Commands == {"check", "install", "uninstall", "run"}

Probes == {"amqp", "vcd", "vcs"}

Sections == {"amqp", "vcd", "vcs"}

(* ---------------------------------------------------------------------- *)
(* click option processing                                                *)
(* ---------------------------------------------------------------------- *)

\* The -c/--config option as each command declares it.
ConfigOption(c) ==
    [envvar |-> "CSE_CONFIG", default |-> "config.yaml"]

ResolveOption_EnvFirst(opt, given, env) ==
    IF env[opt.envvar] # NoValue THEN env[opt.envvar]
    ELSE IF given # NoValue THEN given
    ELSE opt.default

\* click: the command-line value, else the envvar's value, else the default.
ResolveOption(opt, given, env) ==
    IF given # NoValue THEN given
    ELSE IF env[opt.envvar] # NoValue THEN env[opt.envvar]
    ELSE opt.default

NeedsPrompt_Never(c, yes) == FALSE

\* Only uninstall declares -y/--yes with a prompt; click prompts when the
\* flag is not given.
NeedsPrompt(c, yes) == c = "uninstall" /\ ~yes

\* vcd_cli.vcd.abort_if_false: abort unless the value is true.
AbortIfFalse(value) == ~value

(* ---------------------------------------------------------------------- *)
(* output                                                                 *)
(* ---------------------------------------------------------------------- *)

bool_to_msg(value) == IF value THEN "success" ELSE "fail"

ProbeLine(p, value) == [kind |-> p, msg |-> bool_to_msg(value), log |-> ""]

ValidLine == [kind |-> "check", msg |-> "The configuration is valid.", log |-> ""]

InvalidLine ==
    [kind |-> "check", msg |-> "The configuration is invalid", log |-> "cse.log"]

InstallErrorLine ==
    [kind |-> "install", msg |-> "An error has ocurred", log |-> "cse.log"]

NoLine == [kind |-> "none", msg |-> "", log |-> ""]

\* try: <body raising e, then echo okLine>  except Exception: log, echo errLine
\* An echo on a broken standard output raises; raised inside the except
\* clause it leaves the handler.
TryExcept(e, okLine, errLine) ==
    LET e1 == IF e # "none" THEN e
              ELSE IF okLine # NoLine /\ ~stdoutOk THEN "BrokenPipeError"
              ELSE "none"
    IN  IF e1 = "none"
        THEN [out     |-> IF okLine = NoLine THEN out ELSE Append(out, okLine),
              exc     |-> exc,
              handled |-> handled,
              logged  |-> logged]
        ELSE [out     |-> IF stdoutOk THEN Append(out, errLine) ELSE out,
              exc     |-> IF stdoutOk THEN e1 ELSE "BrokenPipeError",
              handled |-> IF stdoutOk THEN "caught" ELSE "escaped",
              logged  |-> logged + 1]

\* A handler body with no try statement: an exception leaves the handler.
NoTry(e) ==
    [out     |-> out,
     exc     |-> IF e = "none" THEN exc ELSE e,
     handled |-> IF e = "none" THEN handled ELSE "escaped",
     logged  |-> logged]

(* ---------------------------------------------------------------------- *)
(* check_config                                                           *)
(* ---------------------------------------------------------------------- *)

\* def check_config(file_name)
CheckConfigParams == <<"file_name">>

\* check_config(config, template)
CheckCallArgs == <<"config", "template">>

\* Service.run: check_config(config_file)
ServiceCallArgs == <<"config_file">>

CheckConfigOrder_Swapped ==
    <<"load", "lookup_amqp", "amqp_connect", "amqp_echo", "amqp_close",
      "vcs_connect", "vcs_echo", "vcd_verify", "vcd_login", "vcd_echo",
      "return">>

\* The statements of check_config in source order.
CheckConfigOrder ==
    <<"load", "lookup_amqp", "amqp_connect", "amqp_echo", "amqp_close",
      "vcd_verify", "vcd_login", "vcd_echo", "vcs_connect", "vcs_echo",
      "return">>

Index(s) == CHOOSE i \in 1..Len(CheckConfigOrder) : CheckConfigOrder[i] = s

After(s) == CheckConfigOrder[Index(s) + 1]

Entry == CheckConfigOrder[1]

\* A call binds its positional arguments to the parameters or raises TypeError
\* before the first statement of the body runs.  check passes two arguments
\* to the one-parameter check_config.
CallBinds(args) == Len(args) = Len(CheckConfigParams)

\* config[k] on a document without the key k
KeyError(k) ==
    CASE k = "amqp" -> "KeyError: 'amqp'"
      [] k = "vcd"  -> "KeyError: 'vcd'"
      [] k = "vcs"  -> "KeyError: 'vcs'"

\* an exception raised in check_config: nothing in it is a try statement
Raise(e) ==
    /\ exc' = e
    /\ pc' = "raised"

StepFrame ==
    UNCHANGED <<inputs, configPath, prompted, answer, aborted, called,
                handled, logged, ccResult>>

(* ---------------------------------------------------------------------- *)
(* initial state                                                          *)
(* ---------------------------------------------------------------------- *)

\* The resolved path names an existing file: click.Path(exists=True) rejects
\* any other before a handler runs.
Init ==
    /\ cmd \in Commands
    /\ argv \in [config : {NoValue, "flag.yaml"},
                 yes    : IF cmd = "uninstall" THEN BOOLEAN ELSE {FALSE},
                 skip   : IF cmd = "run" THEN BOOLEAN ELSE {FALSE}]
    /\ environ \in [{"CSE_CONFIG"} -> {NoValue, "env.yaml"}]
    /\ doc \in [keys : SUBSET Sections, verify : BOOLEAN]
    /\ fileReadable \in BOOLEAN
    /\ amqpState \in {"down", "closed", "open"}
    /\ vcdUp \in BOOLEAN
    /\ vcsUp \in BOOLEAN
    /\ stdoutOk \in BOOLEAN
    /\ workflowOk \in BOOLEAN
    /\ pc = "start"
    /\ configPath = NoValue
    /\ prompted = FALSE
    /\ answer = "none"
    /\ aborted = FALSE
    /\ called = {}
    /\ status = [p \in Probes |-> "idle"]
    /\ attempts = [p \in Probes |-> 0]
    /\ connOpen = FALSE
    /\ out = <<>>
    /\ warned = 0
    /\ suppressCount = 0
    /\ warningsDisabled = FALSE
    /\ exc = "none"
    /\ handled = "none"
    /\ logged = 0
    /\ ccResult = "none"

(* ---------------------------------------------------------------------- *)
(* the dispatcher                                                         *)
(* ---------------------------------------------------------------------- *)

\* click binds the parameters of the invoked command, prompting for --yes.
ParseArgs ==
    /\ pc = "start"
    /\ configPath' = ResolveOption(ConfigOption(cmd), argv.config, environ)
    /\ pc' = IF NeedsPrompt(cmd, argv.yes) THEN "prompt" ELSE "handler"
    /\ UNCHANGED <<inputs, prompted, answer, aborted, called, status,
                   attempts, connOpen, out, warned, suppressCount,
                   warningsDisabled, exc, handled, logged, ccResult>>

\* 'Are you sure you want to uninstall CSE?' and the callback on the answer.
Prompt ==
    /\ pc = "prompt"
    /\ \E a \in BOOLEAN :
          /\ prompted' = TRUE
          /\ answer' = IF a THEN "yes" ELSE "no"
          /\ aborted' = AbortIfFalse(a)
          /\ pc' = IF AbortIfFalse(a) THEN "done" ELSE "handler"
    /\ UNCHANGED <<inputs, configPath, called, status, attempts, connOpen,
                   out, warned, suppressCount, warningsDisabled, exc,
                   handled, logged, ccResult>>

\* install_cse, uninstall_cse and the service loop: opaque, succeed or raise.
Workflow == IF workflowOk THEN "none" ELSE "WorkflowError"

\* the handler is left: its effects on the output, the exception and the log
Leave(r) ==
    /\ out' = r.out
    /\ exc' = r.exc
    /\ handled' = r.handled
    /\ logged' = r.logged
    /\ pc' = "done"

HandlerFrame ==
    UNCHANGED <<inputs, configPath, prompted, answer, aborted, status,
                attempts, connOpen, warned, suppressCount, warningsDisabled>>

\* check: try: check_config(config, template); secho(valid)  except: ...
Check ==
    /\ pc = "handler"
    /\ cmd = "check"
    /\ called' = called \cup {"check_config"}
    /\ IF CallBinds(CheckCallArgs)
       THEN /\ pc' = Entry
            /\ UNCHANGED <<out, exc, handled, logged>>
       ELSE Leave(TryExcept("TypeError", ValidLine, InvalidLine))
    /\ UNCHANGED ccResult
    /\ HandlerFrame

\* install: try: install_cse(ctx, config, template, no_capture)  except: ...
Install ==
    /\ pc = "handler"
    /\ cmd = "install"
    /\ called' = called \cup {"install_cse"}
    /\ Leave(TryExcept(Workflow, NoLine, InstallErrorLine))
    /\ UNCHANGED ccResult
    /\ HandlerFrame

\* uninstall: uninstall_cse(ctx, config, template)
Uninstall ==
    /\ pc = "handler"
    /\ cmd = "uninstall"
    /\ called' = called \cup {"uninstall_cse"}
    /\ Leave(NoTry(Workflow))
    /\ UNCHANGED ccResult
    /\ HandlerFrame

\* Service.run(): validate the configuration unless told not to, then serve.
ServiceRun(should_check_config) ==
    IF should_check_config
    THEN /\ called' = called \cup {"check_config"}
         /\ IF CallBinds(ServiceCallArgs)
            THEN /\ pc' = Entry
                 /\ UNCHANGED <<out, exc, handled, logged>>
            ELSE Leave(NoTry("TypeError"))
    ELSE /\ called' = called \cup {"service"}
         /\ Leave(NoTry(Workflow))

\* run: service = Service(config, should_check_config=not skip_check)
\*      service.run()
Run ==
    /\ pc = "handler"
    /\ cmd = "run"
    /\ ServiceRun(~argv.skip)
    /\ UNCHANGED ccResult
    /\ HandlerFrame

(* ---------------------------------------------------------------------- *)
(* the statements of check_config                                         *)
(* ---------------------------------------------------------------------- *)

\* with open(file_name, 'r') as f: config = yaml.load(f)
LoadConfig ==
    /\ pc = "load"
    /\ IF fileReadable
       THEN pc' = After("load") /\ UNCHANGED exc
       ELSE Raise("OSError")
    /\ UNCHANGED <<status, attempts, connOpen, out, warned, suppressCount,
                   warningsDisabled>>
    /\ StepFrame

LookupAmqp_Eager ==
    /\ pc = "lookup_amqp"
    /\ IF Sections \subseteq doc.keys
       THEN pc' = After("lookup_amqp") /\ UNCHANGED exc
       ELSE Raise(KeyError(CHOOSE k \in Sections \ doc.keys : TRUE))
    /\ UNCHANGED <<status, attempts, connOpen, out, warned, suppressCount,
                   warningsDisabled>>
    /\ StepFrame

\* amqp = config['amqp']; credentials and connection parameters
LookupAmqp ==
    /\ pc = "lookup_amqp"
    /\ IF "amqp" \in doc.keys
       THEN pc' = After("lookup_amqp") /\ UNCHANGED exc
       ELSE Raise(KeyError("amqp"))
    /\ UNCHANGED <<status, attempts, connOpen, out, warned, suppressCount,
                   warningsDisabled>>
    /\ StepFrame

AmqpConnect_Continue ==
    /\ pc = "amqp_connect"
    /\ attempts' = [attempts EXCEPT !["amqp"] = @ + 1]
    /\ IF amqpState = "down"
       THEN /\ status' = [status EXCEPT !["amqp"] = "failed"]
            /\ connOpen' = FALSE
            /\ exc' = "AMQPConnectionError"
            /\ pc' = After("amqp_close")
       ELSE /\ status' = [status EXCEPT !["amqp"] = "running"]
            /\ connOpen' = (amqpState = "open")
            /\ pc' = After("amqp_connect")
            /\ UNCHANGED exc
    /\ UNCHANGED <<out, warned, suppressCount, warningsDisabled>>
    /\ StepFrame

\* connection = pika.BlockingConnection(parameters)
AmqpConnect ==
    /\ pc = "amqp_connect"
    /\ attempts' = [attempts EXCEPT !["amqp"] = @ + 1]
    /\ IF amqpState = "down"
       THEN /\ status' = [status EXCEPT !["amqp"] = "failed"]
            /\ connOpen' = FALSE
            /\ Raise("AMQPConnectionError")
       ELSE /\ status' = [status EXCEPT !["amqp"] = "running"]
            /\ connOpen' = (amqpState = "open")
            /\ pc' = After("amqp_connect")
            /\ UNCHANGED exc
    /\ UNCHANGED <<out, warned, suppressCount, warningsDisabled>>
    /\ StepFrame

\* click.echo('Connection to AMQP server (%s:%s): %s' % (...,
\*            bool_to_msg(connection.is_open)))
AmqpEcho ==
    /\ pc = "amqp_echo"
    /\ IF stdoutOk
       THEN /\ out' = Append(out, ProbeLine("amqp", connOpen))
            /\ pc' = After("amqp_echo")
            /\ UNCHANGED <<status, exc>>
       ELSE /\ status' = [status EXCEPT !["amqp"] = "failed"]
            /\ Raise("BrokenPipeError")
            /\ UNCHANGED out
    /\ UNCHANGED <<attempts, connOpen, warned, suppressCount,
                   warningsDisabled>>
    /\ StepFrame

\* connection.close(); it returns normally, also on a connection the broker
\* has already closed.
AmqpClose ==
    /\ pc = "amqp_close"
    /\ connOpen' = FALSE
    /\ status' = [status EXCEPT !["amqp"] = "ok"]
    /\ pc' = After("amqp_close")
    /\ UNCHANGED <<attempts, out, warned, suppressCount, warningsDisabled,
                   exc>>
    /\ StepFrame

\* if not config['vcd']['verify']: warn on stderr, disable_warnings()
\* disable_warnings() adds a filter to the interpreter's warning filters; no
\* statement removes it.  The write to stderr is taken to succeed.
VcdVerify ==
    /\ pc = "vcd_verify"
    /\ IF "vcd" \notin doc.keys
       THEN /\ Raise(KeyError("vcd"))
            /\ UNCHANGED <<status, warned, suppressCount, warningsDisabled>>
       ELSE /\ status' = [status EXCEPT !["vcd"] = "running"]
            /\ pc' = After("vcd_verify")
            /\ UNCHANGED exc
            /\ IF ~doc.verify
               THEN /\ warned' = warned + 1
                    /\ suppressCount' = suppressCount + 1
                    /\ warningsDisabled' = TRUE
               ELSE UNCHANGED <<warned, suppressCount, warningsDisabled>>
    /\ UNCHANGED <<attempts, connOpen, out>>
    /\ StepFrame

\* client = Client(...); client.set_credentials(BasicLoginCredentials(...))
VcdLogin ==
    /\ pc = "vcd_login"
    /\ attempts' = [attempts EXCEPT !["vcd"] = @ + 1]
    /\ IF vcdUp
       THEN /\ pc' = After("vcd_login")
            /\ UNCHANGED <<status, exc>>
       ELSE /\ status' = [status EXCEPT !["vcd"] = "failed"]
            /\ Raise("VcdError")
    /\ UNCHANGED <<connOpen, out, warned, suppressCount, warningsDisabled>>
    /\ StepFrame

\* click.echo('Connection to vCloud Director as system administrator
\*            (%s:%s): %s' % (..., bool_to_msg(True)))
VcdEcho ==
    /\ pc = "vcd_echo"
    /\ IF stdoutOk
       THEN /\ out' = Append(out, ProbeLine("vcd", TRUE))
            /\ status' = [status EXCEPT !["vcd"] = "ok"]
            /\ pc' = After("vcd_echo")
            /\ UNCHANGED exc
       ELSE /\ status' = [status EXCEPT !["vcd"] = "failed"]
            /\ Raise("BrokenPipeError")
            /\ UNCHANGED out
    /\ UNCHANGED <<attempts, connOpen, warned, suppressCount,
                   warningsDisabled>>
    /\ StepFrame

\* v = VSphere(config['vcs']['host'], ...); v.connect()
VcsConnect ==
    /\ pc = "vcs_connect"
    /\ IF "vcs" \notin doc.keys
       THEN /\ Raise(KeyError("vcs"))
            /\ UNCHANGED <<status, attempts>>
       ELSE /\ attempts' = [attempts EXCEPT !["vcs"] = @ + 1]
            /\ IF vcsUp
               THEN /\ status' = [status EXCEPT !["vcs"] = "running"]
                    /\ pc' = After("vcs_connect")
                    /\ UNCHANGED exc
               ELSE /\ status' = [status EXCEPT !["vcs"] = "failed"]
                    /\ Raise("VcsError")
    /\ UNCHANGED <<connOpen, out, warned, suppressCount, warningsDisabled>>
    /\ StepFrame

\* click.echo('Connection to vCenter Server as %s (%s:%s): %s' % (...,
\*            bool_to_msg(True)))
VcsEcho ==
    /\ pc = "vcs_echo"
    /\ IF stdoutOk
       THEN /\ out' = Append(out, ProbeLine("vcs", TRUE))
            /\ status' = [status EXCEPT !["vcs"] = "ok"]
            /\ pc' = After("vcs_echo")
            /\ UNCHANGED exc
       ELSE /\ status' = [status EXCEPT !["vcs"] = "failed"]
            /\ Raise("BrokenPipeError")
            /\ UNCHANGED out
    /\ UNCHANGED <<attempts, connOpen, warned, suppressCount,
                   warningsDisabled>>
    /\ StepFrame

\* check_config is left, by `return config` or by the exception in flight,
\* and its caller goes on: check prints its summary, the service serves.
Return ==
    /\ pc \in {"return", "raised"}
    /\ ccResult' = IF pc = "return" THEN "returned" ELSE "raised"
    /\ LET e == IF pc = "raised" THEN exc ELSE "none"
       IN  IF cmd = "check"
           THEN /\ Leave(TryExcept(e, ValidLine, InvalidLine))
                /\ UNCHANGED called
           ELSE /\ Leave(NoTry(IF e # "none" THEN e ELSE Workflow))
                /\ called' = IF e = "none" THEN called \cup {"service"}
                             ELSE called
    /\ HandlerFrame

Next ==
    \/ ParseArgs
    \/ Prompt
    \/ Check
    \/ Install
    \/ Uninstall
    \/ Run
    \/ LoadConfig
    \/ LookupAmqp
    \/ AmqpConnect
    \/ AmqpEcho
    \/ AmqpClose
    \/ VcdVerify
    \/ VcdLogin
    \/ VcdEcho
    \/ VcsConnect
    \/ VcsEcho
    \/ Return

Spec == Init /\ [][Next]_vars

(* ---------------------------------------------------------------------- *)
(* properties                                                             *)
(* ---------------------------------------------------------------------- *)

Range(q) == {q[i] : i \in 1..Len(q)}

Finished == {"ok", "failed"}

Rank(p) == CASE p = "amqp" -> 1 [] p = "vcd" -> 2 [] p = "vcs" -> 3

Terminated == ccResult # "none"

\* C1: the probes run in the order AMQP, vCD, vCS: the vCD probe has not
\* started unless the AMQP probe has finished, the vCS probe has not started
\* unless the vCD probe has finished, and no external client is called twice.
C1_FixedOrderNoRetry ==
    /\ (status["vcd"] # "idle" \/ attempts["vcd"] > 0)
          => status["amqp"] \in Finished
    /\ (status["vcs"] # "idle" \/ attempts["vcs"] > 0)
          => status["vcd"] \in Finished
    /\ \A p \in Probes : attempts[p] <= 1

C1_Witness ==
    /\ Terminated
    /\ \A p \in Probes : status[p] = "ok" /\ attempts[p] = 1

\* C2: once a probe has failed check_config does nothing more: it is on its
\* way out by the exception, no later probe is started or attempted, no later
\* probe line is printed, and it ends by raising to its caller.
C2_FailFast ==
    \A p \in Probes :
       status[p] = "failed" =>
          /\ pc \in {"raised", "done"}
          /\ exc # "none"
          /\ \A q \in Probes :
                Rank(q) > Rank(p) =>
                   /\ status[q] = "idle"
                   /\ attempts[q] = 0
                   /\ \A l \in Range(out) : l.kind # q
          /\ pc = "done" => ccResult = "raised" /\ handled # "none"

C2_Witness ==
    /\ amqpState = "down"
    /\ status["amqp"] = "failed"
    /\ pc = "done"
    /\ ccResult = "raised"

\* the external client interaction of probe p was made and succeeded / failed
Succeeded(p) ==
    /\ attempts[p] > 0
    /\ CASE p = "amqp" -> amqpState = "open"
         [] p = "vcd"  -> vcdUp
         [] p = "vcs"  -> vcsUp

Failed(p) ==
    /\ attempts[p] > 0
    /\ ~Succeeded(p)

\* C3: when check_config has ended (standard output being writable), every
\* probe whose client interaction succeeded has its line with "success" and
\* every probe whose client interaction failed has its line with "fail".
C3_ProbeLines ==
    (Terminated /\ stdoutOk) =>
       \A p \in Probes :
          /\ Succeeded(p) => ProbeLine(p, TRUE) \in Range(out)
          /\ Failed(p) => ProbeLine(p, FALSE) \in Range(out)

\* the document and the three systems are such that every probe succeeds
ProbesSucceed ==
    /\ fileReadable
    /\ Sections \subseteq doc.keys
    /\ amqpState = "open"
    /\ vcdUp
    /\ vcsUp

Summaries == {i \in 1..Len(out) : out[i] \in {ValidLine, InvalidLine}}

\* C4: a finished check (standard output being writable) has printed exactly
\* one summary, and it is the valid one exactly when all three probes succeed.
C4_Summary ==
    (pc = "done" /\ cmd = "check" /\ stdoutOk) =>
       /\ Cardinality(Summaries) = 1
       /\ ValidLine \in Range(out) <=> ProbesSucceed
       /\ ~(ValidLine \in Range(out) /\ InvalidLine \in Range(out))

\* C5: when a command has finished (standard output being writable) and the
\* operation it delegates to raised, the handler caught the exception and
\* the last line printed points to cse.log.
C5_Contained ==
    (pc = "done" /\ stdoutOk /\ exc # "none") =>
       /\ handled = "caught"
       /\ Len(out) > 0
       /\ out[Len(out)].log = "cse.log"

\* C6: no queue connection is open once the vCD probe has started or
\* check_config is left, by return or by exception.
C6_Released ==
    (status["vcd"] # "idle" \/ pc \in {"return", "raised"} \/ Terminated)
       => ~connOpen

\* C7: once click has bound the parameters the config path is the flag's
\* value if the flag was given, else CSE_CONFIG's value if it is set, else
\* 'config.yaml', for each of the four commands.
C7_ConfigPrecedence ==
    pc # "start" =>
       /\ argv.config # NoValue => configPath = argv.config
       /\ (argv.config = NoValue /\ environ["CSE_CONFIG"] # NoValue)
             => configPath = environ["CSE_CONFIG"]
       /\ (argv.config = NoValue /\ environ["CSE_CONFIG"] = NoValue)
             => configPath = "config.yaml"

C7_Witness ==
    /\ pc = "done"
    /\ argv.config = "flag.yaml"
    /\ environ["CSE_CONFIG"] = "env.yaml"
    /\ configPath = "flag.yaml"

\* C8: uninstall without -y prompts before any operation is called; a
\* declined prompt aborts with uninstall_cse not called; uninstall_cse is
\* called only with -y or after the prompt was answered yes.
C8_ConfirmBeforeUninstall ==
    /\ (cmd = "uninstall" /\ ~argv.yes /\ ~prompted)
          => called = {} /\ pc \in {"start", "prompt"}
    /\ answer = "no"
          => aborted /\ pc = "done" /\ "uninstall_cse" \notin called
    /\ "uninstall_cse" \in called
          => argv.yes \/ (prompted /\ answer = "yes")

C8_Witness ==
    /\ cmd = "uninstall"
    /\ prompted
    /\ answer = "no"
    /\ pc = "done"
    /\ called = {}

\* C9: when check_config has ended after reaching the vCD probe, the warning
\* suppression was triggered once if vcd.verify is False and never if it is
\* True, and it is no longer in effect in the process.
C9_Suppression ==
    (Terminated /\ status["vcd"] # "idle") =>
       /\ suppressCount = IF doc.verify THEN 0 ELSE 1
       /\ ~warningsDisabled

\* a readable document with reachable amqp and vcd sections and no vcs key,
\* on a writable standard output
NoVcsScenario ==
    /\ fileReadable
    /\ doc.keys = {"amqp", "vcd"}
    /\ amqpState = "open"
    /\ vcdUp
    /\ stdoutOk

\* C10: keys are looked up section by section.  In the scenario without a
\* vcs key check_config ends with KeyError('vcs'), and whenever that error is
\* in flight the AMQP and vCD probes are done and their success lines are
\* printed; without an amqp key KeyError('amqp') is raised with no probe
\* started, attempted or reported.
C10_LazyLookup ==
    /\ (NoVcsScenario /\ Terminated)
          => ccResult = "raised" /\ exc = KeyError("vcs")
    /\ (NoVcsScenario /\ exc = KeyError("vcs"))
          => /\ status["amqp"] = "ok"
             /\ status["vcd"] = "ok"
             /\ Len(out) >= 2
             /\ SubSeq(out, 1, 2)
                   = <<ProbeLine("amqp", TRUE), ProbeLine("vcd", TRUE)>>
    /\ (fileReadable /\ "amqp" \notin doc.keys /\ (Terminated \/ pc = "raised"))
          => /\ exc = KeyError("amqp")
             /\ \A p \in Probes : status[p] = "idle" /\ attempts[p] = 0
             /\ \A l \in Range(out) : l.kind \notin Probes

C10_Witness ==
    /\ NoVcsScenario
    /\ pc = "done"
    /\ exc = KeyError("vcs")
    /\ SubSeq(out, 1, 2) = <<ProbeLine("amqp", TRUE), ProbeLine("vcd", TRUE)>>

====
